---- MODULE Spec2Model ----
(***************************************************************************)
(* Model of the knowledge store of the Titanic analysis tools              *)
(* (src/tools/knowledge.py) and of the record_analysis wrapper of          *)
(* src/tools/titanic_agent.py.                                             *)
(*                                                                         *)
(* A process owns one KnowledgeBase (the module-level knowledge_base).     *)
(* The knowledge directory with its two JSON files is shared by all        *)
(* processes.  A file's content is a sequence of the chunks json.dump      *)
(* writes: "[" , one chunk per object, "]" (or the single chunk "[]" for   *)
(* an empty list).  A write that stops early leaves a prefix.              *)
(***************************************************************************)
EXTENDS Integers, Sequences, FiniteSets, TLC

\* ------------------------------------------------------------------ bounds
MaxOps == 2          \* mutator calls (add_insight, record_analysis) in a run

\* processes, each with its own module-level knowledge_base
Procs == {1, 2}

\* ------------------------------------------------------------- data model
InsightFields == {"timestamp", "category", "description", "evidence",
                  "confidence", "source"}

AnalysisFields == {"timestamp", "question", "approach", "code", "result",
                   "insights"}

\* A DataInsight object.  confidence is kept in tenths (10 is 1.0).
DataInsight(timestamp, category, description, evidence, confidence, source) ==
    [cls |-> "DataInsight", timestamp |-> timestamp, category |-> category,
     description |-> description, evidence |-> evidence,
     confidence |-> confidence, source |-> source]

\* An AnalysisStep object.
AnalysisStep(timestamp, question, approach, code, result, insights) ==
    [cls |-> "AnalysisStep", timestamp |-> timestamp, question |-> question,
     approach |-> approach, code |-> code, result |-> result,
     insights |-> insights]

\* dataclasses.asdict on a value inside a dataclass: a dataclass becomes a
\* dict of its fields (recursively), a dict is copied.
asdict_inner(x) == [x EXCEPT !.cls = "dict"]

\* dataclasses.asdict(obj) for the two record classes.
asdict(obj) ==
    IF obj.cls = "AnalysisStep"
    THEN [obj EXCEPT !.cls = "dict",
                     !.insights = [i \in 1..Len(obj.insights) |->
                                      asdict_inner(obj.insights[i])]]
    ELSE asdict_inner(obj)

\* [asdict(x) for x in coll]
asdict_list(coll) == [i \in 1..Len(coll) |-> asdict(coll[i])]

\* ------------------------------------------------------------ JSON text
OpenTok  == [tok |-> "["]
CloseTok == [tok |-> "]"]
EmptyTok == [tok |-> "[]"]
EmptyObjTok == [tok |-> "{}"]
ObjTok(d) == [tok |-> "obj", val |-> d]

\* The chunks json.dump(list_of_dicts, f, indent=2) writes, in order.
json_dump(dicts) ==
    IF Len(dicts) = 0
    THEN <<EmptyTok>>
    ELSE <<OpenTok>> \o [i \in 1..Len(dicts) |-> ObjTok(dicts[i])] \o <<CloseTok>>

\* json.load succeeds only on complete JSON text: an array of objects, or
\* (text no store writes) the object without members.
json_valid(data) ==
    \/ data = <<EmptyTok>>
    \/ data = <<EmptyObjTok>>
    \/ /\ Len(data) >= 2
       /\ data[1] = OpenTok
       /\ data[Len(data)] = CloseTok
       /\ \A i \in 2..(Len(data) - 1) : data[i].tok = "obj"

\* json.load(f) on valid text, as "for item in data" walks it: the dicts of
\* an array; the object without members yields no item.
json_load(data) ==
    IF data = <<EmptyTok>> \/ data = <<EmptyObjTok>>
    THEN <<>>
    ELSE [i \in 1..(Len(data) - 2) |-> data[i + 1].val]

\* DataInsight(**item) raises TypeError unless the keys are the fields.
insight_keys_ok(item) == DOMAIN item = InsightFields \cup {"cls"}

\* AnalysisStep(**item) raises TypeError unless the keys are the fields.
analysis_keys_ok(item) == DOMAIN item = AnalysisFields \cup {"cls"}

\* Variant: the loaded dicts are kept as they are (self.insights = data).
insight_from_dict_raw(item) == item

\* DataInsight(**item)
insight_from_dict(item) == [item EXCEPT !.cls = "DataInsight"]

\* AnalysisStep(**item): the embedded insights stay the dicts json.load made.
analysis_from_dict(item) == [item EXCEPT !.cls = "AnalysisStep"]

\* ------------------------------------------------------------ file system
FileNames == {"insights.json", "analysis_history.json"}

NoFile == [exists |-> FALSE, data |-> <<>>]

\* open(path, "w"): creates or truncates.
open_w(fs, name) == [fs EXCEPT ![name] = [exists |-> TRUE, data |-> <<>>]]

\* The blocks in which buffered text reaches a file: everything before the
\* last chunk, then the last chunk (a short text is one block).
blocks(chunks) ==
    IF Len(chunks) <= 1
    THEN <<chunks>>
    ELSE <<SubSeq(chunks, 1, Len(chunks) - 1), <<chunks[Len(chunks)]>>>>

\* A block is written at the writer's offset pos (chunks written so far).
write_at(fs, name, pos, block) ==
    LET old == fs[name].data
        new == IF Len(old) >= pos
               THEN SubSeq(old, 1, pos) \o block
                    \o SubSeq(old, pos + Len(block) + 1, Len(old))
               ELSE old \o [i \in 1..(pos - Len(old)) |-> [tok |-> "hole"]]
                    \o block
    IN  [fs EXCEPT ![name] = [exists |-> TRUE, data |-> new]]

\* ------------------------------------------------------------- the store
\* _load_knowledge, first file: a missing insights.json gives no records;
\* ok is FALSE when json.load or DataInsight(**item) raises.
load_insights(fs) ==
    LET f == fs["insights.json"]
        ok == ~f.exists \/ (json_valid(f.data) /\
                 \A i \in 1..Len(json_load(f.data)) :
                     insight_keys_ok(json_load(f.data)[i]))
    IN  [ok |-> ok,
         val |-> IF f.exists /\ ok
                 THEN [i \in 1..Len(json_load(f.data)) |->
                          insight_from_dict(json_load(f.data)[i])]
                 ELSE <<>>]

\* Variant: analysis_history.json is never read.
load_analyses_skip(fs) == [ok |-> TRUE, val |-> <<>>]

\* Variant: analysis_history.json is opened without the exists() check.
load_analyses_strict(fs) ==
    LET f == fs["analysis_history.json"]
        ok == f.exists /\ json_valid(f.data) /\
                 \A i \in 1..Len(json_load(f.data)) :
                     analysis_keys_ok(json_load(f.data)[i])
    IN  [ok |-> ok,
         val |-> IF ok
                 THEN [i \in 1..Len(json_load(f.data)) |->
                          analysis_from_dict(json_load(f.data)[i])]
                 ELSE <<>>]

\* _load_knowledge, second file: a missing analysis_history.json gives no
\* records; ok is FALSE when json.load or AnalysisStep(**item) raises.
load_analyses(fs) ==
    LET f == fs["analysis_history.json"]
        ok == ~f.exists \/ (json_valid(f.data) /\
                 \A i \in 1..Len(json_load(f.data)) :
                     analysis_keys_ok(json_load(f.data)[i]))
    IN  [ok |-> ok,
         val |-> IF f.exists /\ ok
                 THEN [i \in 1..Len(json_load(f.data)) |->
                          analysis_from_dict(json_load(f.data)[i])]
                 ELSE <<>>]

\* KnowledgeBase._load_knowledge as a function of the directory content: the
\* insights file is read first, an exception there skips the second file.
load_knowledge(fs) ==
    LET ri == load_insights(fs)
        ra == load_analyses(fs)
    IN  [ok |-> ri.ok /\ ra.ok,
         insights |-> ri.val,
         analysis_history |-> IF ri.ok THEN ra.val ELSE <<>>]

\* Variant: an empty result is replaced by a default insight.
get_relevant_insights_default(self, question) ==
    IF self.insights = <<>>
    THEN << DataInsight(0, "data_structure", "Column names and data types",
                        "", 10, "direct_analysis") >>
    ELSE self.insights

\* Variant: only the insights whose description is the question are returned.
get_relevant_insights_match(self, question) ==
    SelectSeq(self.insights, LAMBDA i : i.description = question)

\* get_relevant_insights(self, question)
get_relevant_insights(self, question) == self.insights

\* Variant: only the analyses of the same question are returned.
get_similar_analyses_match(self, question) ==
    SelectSeq(self.analysis_history, LAMBDA a : a.question = question)

\* get_similar_analyses(self, question)
get_similar_analyses(self, question) == self.analysis_history

\* ------------------------------------------------------------------ inputs
Questions == {"How many survived?", "survivors"}

\* The insight a caller passes to add_insight at time t.
InsightInput(t) ==
    DataInsight(t, "pattern", "women survived more", "df.groupby", 8,
                "user_feedback")

\* (question, approach, code, result) arguments of record_analysis.
AnalysisArgs ==
    { [question |-> "How many survived?", approach |-> "pandas_analysis",
       code |-> "df['Survived'].sum()", result |-> "342"] }

NoStore == [live |-> FALSE, insights |-> <<>>, analysis_history |-> <<>>]

NoFiles == [n \in FileNames |-> NoFile]

NoPre == [op |-> "none", files |-> NoFiles, insights |-> <<>>,
          analysis_history |-> <<>>]

NoOrigin == [emptyDir |-> FALSE, emptyStore |-> FALSE, fresh |-> FALSE]

\* ------------------------------------------------------------------
\* Directories: utils/directory_utils.py
\* ------------------------------------------------------------------

\* how often ensure_directories is called with the same arguments
MaxCalls == 3

\* a path is the sequence of its names; <<>> is the file system root
BaseDir == <<"app">>

DirPaths ==
    {<<"app">>, <<"app", "logs">>, <<"app", "data">>,
     <<"app", "data", "knowledge">>}

\* the dirs arguments tried: names relative to base_dir, in list order
DirLists ==
    { << <<"logs">>, <<"data">> >>,
      << <<"data", "knowledge">> >>,
      << <<"data">>, <<"data", "knowledge">> >>,
      << <<"data", "knowledge">>, <<"logs">> >> }

parent(path) == SubSeq(path, 1, Len(path) - 1)

\* what is at a path: "absent", "dir" or "file"
kind(t, path) == IF path = <<>> THEN "dir" ELSE t[path]

\* some proper ancestor of the path is a regular file
under_file(t, path) ==
    \E k \in 1..(Len(path) - 1) : kind(t, SubSeq(path, 1, k)) = "file"

NoTree == [p \in DirPaths |-> "absent"]

\* the directory trees a call can find: nothing exists below something
\* that is not a directory
Trees ==
    { t \in [DirPaths -> {"absent", "dir", "file"}] :
          \A p \in DirPaths : t[p] # "absent" => kind(t, parent(p)) = "dir" }

\* Path.mkdir(parents=parents, exist_ok=exist_ok): os.mkdir, and on
\* FileNotFoundError with parents the parent first, then the path again;
\* on any other OSError raise unless exist_ok and the path is a directory.
RECURSIVE mkdir(_, _, _, _)
mkdir(t, path, parents, exist_ok) ==
    IF kind(t, path) # "absent"
    THEN IF exist_ok /\ kind(t, path) = "dir"
         THEN [err |-> "none", tree |-> t]
         ELSE [err |-> "FileExistsError", tree |-> t]
    ELSE IF under_file(t, path)
    THEN [err |-> "NotADirectoryError", tree |-> t]
    ELSE IF kind(t, parent(path)) = "absent"
    THEN IF ~parents
         THEN [err |-> "FileNotFoundError", tree |-> t]
         ELSE LET r == mkdir(t, parent(path), TRUE, TRUE)
              IN  IF r.err # "none" THEN r
                  ELSE mkdir(r.tree, path, FALSE, exist_ok)
    ELSE [err |-> "none", tree |-> [t EXCEPT ![path] = "dir"]]

\* Variant: the directory is made with exist_ok=False.
ensure_dir_exist_fail(t, dir_path, create_parents) ==
    mkdir(t, dir_path, create_parents, FALSE)

\* dir_path.mkdir(parents=create_parents, exist_ok=True)
ensure_dir(t, dir_path, create_parents) ==
    mkdir(t, dir_path, create_parents, TRUE)

\* ensure_directories(base_dir, dirs, create_parents): the loop over dirs;
\* the first exception is logged and raised again, which ends the loop.
RECURSIVE ensure_directories(_, _, _, _)
ensure_directories(t, base_dir, dirs, create_parents) ==
    IF dirs = <<>>
    THEN [err |-> "none", path |-> <<>>, tree |-> t]
    ELSE LET dir_path == base_dir \o Head(dirs)
             r == ensure_dir(t, dir_path, create_parents)
         IN  IF r.err # "none"
             THEN [err |-> r.err, path |-> dir_path, tree |-> r.tree]
             ELSE ensure_directories(r.tree, base_dir, Tail(dirs),
                                     create_parents)

\* no call made yet
NoOutcome == [err |-> "none", path |-> <<>>, tree |-> NoTree]

NoEns ==
    [base_dir |-> BaseDir, dirs |-> <<>>, create_parents |-> TRUE,
     calls |-> 0, before |-> NoTree, first |-> NoOutcome, last |-> NoOutcome]

\* ------------------------------------------------------------------
\* Notebooks: utils/notebook_runner.py
\* ------------------------------------------------------------------

\* how often run() is called on one NotebookRunner
MaxRuns == 2

\* Variant: run starts with the in-place attempt whatever in_place says.
run_entry_always_in_place(self) == "in_place"

\* run: "if self.in_place" chooses what is attempted first.
run_entry(self) == IF self.in_place THEN "in_place" ELSE "regular"

\* a runner on which run() was not called yet
NoNb ==
    [in_place |-> TRUE, keep_convert |-> FALSE, pc |-> "idle",
     attempts |-> <<>>, failed |-> {}, outcome |-> "none", runs |-> 0,
     produced |-> FALSE]

\* the notebook as written by its author, no .nbconvert.ipynb beside it
NoNbFiles == [notebook |-> "source", convert |-> FALSE]

\* ------------------------------------------------------------------
\* The dataset pipeline: data_pipeline/titanic_pipeline.py
\* ------------------------------------------------------------------

\* how many calls into the pipeline module are followed
MaxPipelineCalls == 4

\* no call into the module made yet, neither file there
NoPl ==
    [csv |-> FALSE, db |-> "absent", pc |-> "idle", op |-> "none",
     outcome |-> "none", loaded |-> FALSE, calls |-> 0]

\* ------------------------------------------------------------------
\* Running code: utils/code_runner.py
\* ------------------------------------------------------------------

\* how many calls on one CodeRunner are followed
MaxExec == 4

\* a statement of the code given to execute_code
Assign(name, val) == [op |-> "assign", name |-> name, val |-> val]

Raise == [op |-> "raise", name |-> "", val |-> 1]

\* name = y: the value is looked up under "y"
AssignY(name) == [op |-> "assign_y", name |-> name, val |-> 1]

\* the code strings tried: "_ = 1", "_ = 2", "x = 2", "_ = y", "_ = 1"
\* followed by a statement that raises, and a statement that raises
Codes ==
    { <<Assign("_", 1)>>, <<Assign("_", 2)>>, <<Assign("x", 2)>>,
      <<AssignY("_")>>, <<Assign("_", 1), Raise>>, <<Raise>> }

\* the new_globals tried with update_globals
GlobalsInputs == { ("y" :> 2) }

\* str(value) for the values the codes assign
str(v) == IF v = 1 THEN "1" ELSE "2"

\* exec(code, globals, locals): the statements run in order, binding in
\* locals and looking names up in locals, then globals; an exception
\* (also the NameError of a failed lookup) ends the run and leaves the
\* bindings made so far.
RECURSIVE exec(_, _, _)
exec(code, globals, locals) ==
    IF code = <<>>
    THEN [raised |-> FALSE, locals |-> locals]
    ELSE IF Head(code).op = "raise"
    THEN [raised |-> TRUE, locals |-> locals]
    ELSE IF Head(code).op = "assign_y"
    THEN IF "y" \in DOMAIN locals
         THEN exec(Tail(code), globals,
                   (Head(code).name :> locals["y"]) @@ locals)
         ELSE IF "y" \in DOMAIN globals
         THEN exec(Tail(code), globals,
                   (Head(code).name :> globals["y"]) @@ locals)
         ELSE [raised |-> TRUE, locals |-> locals]
    ELSE exec(Tail(code), globals,
              (Head(code).name :> Head(code).val) @@ locals)

\* str(self.locals_dict.get("_", ""))
get_result(locals) ==
    IF "_" \in DOMAIN locals THEN str(locals["_"]) ELSE ""

\* a CodeRunner just built: globals_dict = {}, locals_dict = {}
NoCr ==
    [globals |-> <<>>, locals |-> <<>>, op |-> "none", code |-> <<>>, outcome |-> "none",
     ret |-> "", calls |-> 0]

\* ------------------------------------------------------------------
\* The chat application: chat_app.py
\* ------------------------------------------------------------------

\* how many user messages are handled
MaxMessages == 1

\* the message contents the application writes
Complete == "Analysis Complete"

\* what agent.ainvoke can return: whether the response messages carry a
\* thought, a final answer and token usage
Responses == [thought : BOOLEAN, content : BOOLEAN, usage : BOOLEAN]

\* no update_message call made yet
NoUpd ==
    [msg |-> 0, content |-> "", updated |-> FALSE, raised |-> FALSE,
     before |-> 0]

\* message.send(): the UI shows the message with its content
send(st, m) ==
    [st EXCEPT !.screen[m] = [sent |-> TRUE, content |-> st.msgs[m].content]]

\* a new Message object is made; the UI knows nothing of it yet
new_message(st, content, author) ==
    [st EXCEPT !.msgs = Append(@, [author |-> author, content |-> content]),
               !.screen = Append(@, [sent |-> FALSE, content |-> ""])]

\* message.update(): the UI is sent the message as the object is now
update(st, m) ==
    [st EXCEPT !.screen[m].content = st.msgs[m].content]

\* MessageManager.update_message(message, content): message.update(), then
\* message.content = content; if the update raises, a new message with the
\* content and the author is sent instead, and if that send raises too the
\* exception leaves update_message.
update_message(st, m, content, update_ok, send_ok) ==
    LET call == [msg |-> m, content |-> content, updated |-> update_ok,
                 raised |-> ~update_ok /\ ~send_ok, before |-> Len(st.msgs)]
    IN  IF update_ok
        THEN [update(st, m) EXCEPT !.msgs[m].content = content, !.upd = call]
        ELSE IF send_ok
        THEN LET n == new_message(st, content, st.msgs[m].author)
             IN  [send(n, Len(n.msgs)) EXCEPT !.upd = call]
        ELSE [st EXCEPT !.upd = call]

\* ui = ChatUI() at import: no technical message, no thoughts message
NoUi ==
    [msgs |-> <<>>, screen |-> <<>>, technical_msg |-> <<>>,
     thoughts_msg |-> <<>>, pc |-> "idle", resp |-> [thought |-> FALSE, content |-> FALSE, usage |-> FALSE],
     handled |-> 0, outcome |-> "none", started |-> <<>>, upd |-> NoUpd,
     chat |-> FALSE]

VARIABLES
    dirExists,   \* the knowledge directory exists
    files,       \* file name -> [exists, data]
    store,       \* process -> its KnowledgeBase: [live, insights, analysis_history]
    pc,          \* process -> position inside _save_knowledge ("idle" outside)
    wpos,        \* process -> chunks written to the file it has open
    todo,        \* process -> blocks still to be written to the open file
    clock,       \* what datetime.now() returns; one tick per mutator call
    last,        \* the operation that acted last: [proc, op, outcome, ret]
    pre,         \* files and collections when the latest mutator was called
    calls,       \* process -> its record_analysis calls, in order: [args, at]
    origin,      \* process -> what its constructor found; fresh until a mutator runs
    cli,         \* process -> where its command line run (main) stands
    owner,       \* thread of control -> the process whose knowledge_base it uses
    added,       \* file -> the entries added by the mutator calls that returned
    tree,        \* path -> what is there: "absent", "dir" or "file"
    ens,         \* the ensure_directories calls: arguments, count, outcomes
    nb,          \* the NotebookRunner: its settings and where run() stands
    nbfiles,     \* the notebook file and whether its .nbconvert.ipynb exists
    pl,          \* the dataset files and the call into the pipeline module
    cr,          \* the CodeRunner: locals_dict and its latest call
    ui           \* the chat: ChatUI, the messages, what the UI shows, the handler

\* the variables of the knowledge store and its directory
kbvars == <<dirExists, files, store, pc, wpos, todo, clock, last, pre, calls,
            origin>>

\* the variables no operation of the knowledge store touches
dirvars == <<tree, ens>>

nbvars == <<nb, nbfiles>>

\* the variables of the remaining modules
misc == <<pl, cr, ui>>

aux == <<cli, owner, added, dirvars, nbvars, misc>>

vars == <<kbvars, aux>>

\* main has not started (or an earlier run of it is over)
NoCli == [stage |-> "off", computed |-> FALSE, shown |-> FALSE]

\* each process has its own knowledge_base; nothing was added yet
KbAuxInit ==
    /\ cli = [p \in Procs |-> NoCli]
    /\ owner = [p \in Procs |-> p]
    /\ added = [n \in FileNames |-> <<>>]

\* ensure_directories is not called
DirsIdle ==
    /\ tree = NoTree
    /\ ens = NoEns

\* no NotebookRunner is at work
NbIdle ==
    /\ nb = NoNb
    /\ nbfiles = NoNbFiles

\* the pipeline module is not called, no code was run, no chat session
MiscIdle ==
    /\ pl = NoPl
    /\ cr = NoCr
    /\ ui = NoUi

AuxInit ==
    /\ KbAuxInit
    /\ DirsIdle
    /\ NbIdle
    /\ MiscIdle

Mutators == {"add_insight", "record_analysis"}

\* no process has built its knowledge_base; the directory does not exist
KbInit ==
    /\ dirExists = FALSE
    /\ files = NoFiles
    /\ store = [p \in Procs |-> NoStore]
    /\ pc = [p \in Procs |-> "idle"]
    /\ wpos = [p \in Procs |-> 0]
    /\ todo = [p \in Procs |-> <<>>]
    /\ clock = 0
    /\ last = [proc |-> 1, op |-> "none", outcome |-> "ok", ret |-> <<>>]
    /\ pre = NoPre
    /\ calls = [p \in Procs |-> <<>>]
    /\ origin = [p \in Procs |-> NoOrigin]

Init ==
    /\ KbInit
    /\ AuxInit

\* No other process is inside an operation.
Quiet(p) == \A q \in Procs \ {p} : pc[q] = "idle"

\* KnowledgeBase.__init__: mkdir(parents=True, exist_ok=True), then
\* _load_knowledge.  An exception leaves the process without a store.
Construct(p) ==
    /\ ~store[owner[p]].live
    /\ pc[p] = "idle"
    /\ dirExists' = TRUE
    /\ LET r == load_knowledge(files)
       IN  /\ store' = [store EXCEPT ![owner[p]] =
                          IF r.ok
                          THEN [live |-> TRUE, insights |-> r.insights,
                                analysis_history |-> r.analysis_history]
                          ELSE NoStore]
           /\ origin' = [origin EXCEPT ![owner[p]] =
                          IF r.ok
                          THEN [emptyDir |-> \A n \in FileNames : ~files[n].exists,
                                emptyStore |-> r.insights = <<>> /\
                                               r.analysis_history = <<>>,
                                fresh |-> TRUE]
                          ELSE NoOrigin]
           /\ last' = [proc |-> p, op |-> "construct",
                       outcome |-> IF r.ok THEN "ok" ELSE "error",
                       ret |-> <<>>]
    /\ calls' = [calls EXCEPT ![owner[p]] = <<>>]
    /\ pre' = IF \E q \in Procs : pc[q] # "idle" THEN pre ELSE NoPre
    /\ UNCHANGED <<files, pc, wpos, todo, clock>>

\* KnowledgeBase.add_insight(insight) up to the call of _save_knowledge.
AddInsightOf(p, insight) ==
    /\ store[owner[p]].live
    /\ pc[p] = "idle"
    /\ clock < MaxOps
    /\ clock' = clock + 1
    /\ store' = [store EXCEPT ![owner[p]].insights = Append(@, insight)]
    /\ pc' = [pc EXCEPT ![p] = "open_ins"]
    /\ pre' = [op |-> "add_insight", files |-> files,
               insights |-> store[owner[p]].insights,
               analysis_history |-> store[owner[p]].analysis_history]
    /\ last' = [proc |-> p, op |-> "add_insight", outcome |-> "running",
                ret |-> <<>>]
    /\ origin' = [origin EXCEPT ![owner[p]].fresh = FALSE]
    /\ UNCHANGED <<dirExists, files, wpos, todo, calls>>

\* A caller adds an insight it has just made.
AddInsight(p) == AddInsightOf(p, InsightInput(clock))

\* Variant: the step is inserted at the front (insert(0, step)).
record_analysis_step_front(self, step) ==
    [self EXCEPT !.analysis_history = <<step>> \o @]

\* KnowledgeBase.record_analysis(step) up to the call of _save_knowledge.
record_analysis_step(self, step) ==
    [self EXCEPT !.analysis_history = Append(@, step)]

\* Variant: the step's result field is filled with the code.
new_step_code_as_result(t, a) ==
    AnalysisStep(t, a.question, a.approach, a.code, a.code,
                 << DataInsight(t, "data_structure",
                                "Column names and data types",
                                a.code, 10, "direct_analysis") >>)

\* titanic_agent.record_analysis: the AnalysisStep it builds at time t from
\* its arguments, with the one DataInsight it always attaches.
new_step(t, a) ==
    AnalysisStep(t, a.question, a.approach, a.code, a.result,
                 << DataInsight(t, "data_structure",
                                "Column names and data types",
                                a.code, 10, "direct_analysis") >>)

\* titanic_agent.record_analysis(question, approach, code, result): builds
\* one DataInsight and the AnalysisStep, then knowledge_base.record_analysis.
RecordAnalysis(p, a) ==
    /\ store[owner[p]].live
    /\ pc[p] = "idle"
    /\ clock < MaxOps
    /\ clock' = clock + 1
    /\ store' = [store EXCEPT ![owner[p]] =
                     record_analysis_step(@, new_step(clock, a))]
    /\ pc' = [pc EXCEPT ![p] = "open_ins"]
    /\ pre' = [op |-> "record_analysis", files |-> files,
               insights |-> store[owner[p]].insights,
               analysis_history |-> store[owner[p]].analysis_history]
    /\ calls' = [calls EXCEPT ![owner[p]] = Append(@, [args |-> a, at |-> clock])]
    /\ last' = [proc |-> p, op |-> "record_analysis", outcome |-> "running",
                ret |-> <<>>]
    /\ origin' = [origin EXCEPT ![owner[p]].fresh = FALSE]
    /\ UNCHANGED <<dirExists, files, wpos, todo>>

\* _save_knowledge: open(self.insights_file, "w") truncates the file, and
\* json.dump encodes [asdict(insight) for insight in self.insights].
SaveOpenInsights(p) ==
    /\ pc[p] = "open_ins"
    /\ files' = open_w(files, "insights.json")
    /\ wpos' = [wpos EXCEPT ![p] = 0]
    /\ todo' = [todo EXCEPT ![p] =
                  blocks(json_dump(asdict_list(store[owner[p]].insights)))]
    /\ pc' = [pc EXCEPT ![p] = "write_ins"]
    /\ UNCHANGED <<dirExists, store, clock, last, pre, calls, origin>>

\* _save_knowledge: one block reaches insights.json; the file is closed
\* after the last one.
SaveWriteInsights(p) ==
    /\ pc[p] = "write_ins"
    /\ files' = write_at(files, "insights.json", wpos[p], Head(todo[p]))
    /\ wpos' = [wpos EXCEPT ![p] = @ + Len(Head(todo[p]))]
    /\ todo' = [todo EXCEPT ![p] = Tail(@)]
    /\ pc' = [pc EXCEPT ![p] = IF Len(todo[p]) = 1 THEN "open_ana" ELSE @]
    /\ UNCHANGED <<dirExists, store, clock, last, pre, calls, origin>>

\* Variant: the second dump writes self.insights again.
SaveOpenAnalysis_insights(p) ==
    /\ pc[p] = "open_ana"
    /\ files' = open_w(files, "analysis_history.json")
    /\ wpos' = [wpos EXCEPT ![p] = 0]
    /\ todo' = [todo EXCEPT ![p] =
                  blocks(json_dump(asdict_list(store[owner[p]].insights)))]
    /\ pc' = [pc EXCEPT ![p] = "write_ana"]
    /\ UNCHANGED <<dirExists, store, clock, last, pre, calls, origin>>

\* _save_knowledge: open(self.analysis_file, "w") truncates the file, and
\* json.dump encodes [asdict(step) for step in self.analysis_history].
SaveOpenAnalysis(p) ==
    /\ pc[p] = "open_ana"
    /\ files' = open_w(files, "analysis_history.json")
    /\ wpos' = [wpos EXCEPT ![p] = 0]
    /\ todo' = [todo EXCEPT ![p] =
                  blocks(json_dump(asdict_list(store[owner[p]].analysis_history)))]
    /\ pc' = [pc EXCEPT ![p] = "write_ana"]
    /\ UNCHANGED <<dirExists, store, clock, last, pre, calls, origin>>

\* _save_knowledge: one block reaches analysis_history.json; after the last
\* one the file is closed and the mutator returns.
SaveWriteAnalysis(p) ==
    /\ pc[p] = "write_ana"
    /\ files' = write_at(files, "analysis_history.json", wpos[p], Head(todo[p]))
    /\ wpos' = [wpos EXCEPT ![p] = IF Len(todo[p]) = 1 THEN 0
                                    ELSE @ + Len(Head(todo[p]))]
    /\ todo' = [todo EXCEPT ![p] = Tail(@)]
    /\ pc' = [pc EXCEPT ![p] = IF Len(todo[p]) = 1 THEN "idle" ELSE @]
    /\ last' = IF Len(todo[p]) = 1
               THEN [proc |-> p, op |-> pre.op, outcome |-> "ok", ret |-> <<>>]
               ELSE last
    /\ UNCHANGED <<dirExists, store, clock, pre, calls, origin>>

\* The write step of a mutation raises (disk full, permission denied): the
\* with-block closes the file as it is and the exception leaves the mutator.
WriteFails(p) ==
    /\ pc[p] # "idle"
    /\ pc' = [pc EXCEPT ![p] = "idle"]
    /\ wpos' = [wpos EXCEPT ![p] = 0]
    /\ todo' = [todo EXCEPT ![p] = <<>>]
    /\ last' = [proc |-> p, op |-> pre.op, outcome |-> "error", ret |-> <<>>]
    /\ UNCHANGED <<dirExists, files, store, clock, pre, calls, origin>>

\* The process is killed inside _save_knowledge.
Crash(p) ==
    /\ pc[p] # "idle"
    /\ pc' = [pc EXCEPT ![p] = "idle"]
    /\ wpos' = [wpos EXCEPT ![p] = 0]
    /\ todo' = [todo EXCEPT ![p] = <<>>]
    /\ store' = [store EXCEPT ![owner[p]] = NoStore]
    /\ calls' = [calls EXCEPT ![owner[p]] = <<>>]
    /\ origin' = [origin EXCEPT ![owner[p]] = NoOrigin]
    /\ last' = [proc |-> p, op |-> pre.op, outcome |-> "crash", ret |-> <<>>]
    /\ UNCHANGED <<dirExists, files, clock, pre>>

\* The process ends (the CLI returns); its knowledge_base is gone.
Exit(p) ==
    /\ store[owner[p]].live
    /\ pc[p] = "idle"
    /\ store' = [store EXCEPT ![owner[p]] = NoStore]
    /\ calls' = [calls EXCEPT ![owner[p]] = <<>>]
    /\ origin' = [origin EXCEPT ![owner[p]] = NoOrigin]
    /\ last' = [proc |-> p, op |-> "exit", outcome |-> "ok", ret |-> <<>>]
    /\ pre' = NoPre
    /\ UNCHANGED <<dirExists, files, pc, wpos, todo, clock>>

\* A caller invokes get_relevant_insights(question).
GetRelevantInsights(p, q) ==
    /\ store[owner[p]].live
    /\ pc[p] = "idle"
    /\ last' = [proc |-> p, op |-> "get_relevant_insights", outcome |-> "ok",
                ret |-> get_relevant_insights(store[owner[p]], q)]
    /\ pre' = NoPre
    /\ UNCHANGED <<dirExists, files, store, pc, wpos, todo, clock, calls,
                   origin>>

\* A caller invokes get_similar_analyses(question).
GetSimilarAnalyses(p, q) ==
    /\ store[owner[p]].live
    /\ pc[p] = "idle"
    /\ last' = [proc |-> p, op |-> "get_similar_analyses", outcome |-> "ok",
                ret |-> get_similar_analyses(store[owner[p]], q)]
    /\ pre' = NoPre
    /\ UNCHANGED <<dirExists, files, store, pc, wpos, todo, clock, calls,
                   origin>>

\* Operations run one after another: a process starts an operation only
\* while no other process is inside one.
Next ==
    \/ \E p \in Procs : Quiet(p) /\ Construct(p) /\ UNCHANGED aux
    \/ \E p \in Procs : Quiet(p) /\ AddInsight(p) /\ UNCHANGED aux
    \/ \E p \in Procs, a \in AnalysisArgs : Quiet(p) /\ RecordAnalysis(p, a) /\ UNCHANGED aux
    \/ \E p \in Procs : SaveOpenInsights(p) /\ UNCHANGED aux
    \/ \E p \in Procs : SaveWriteInsights(p) /\ UNCHANGED aux
    \/ \E p \in Procs : SaveOpenAnalysis(p) /\ UNCHANGED aux
    \/ \E p \in Procs : SaveWriteAnalysis(p) /\ UNCHANGED aux
    \/ \E p \in Procs : WriteFails(p) /\ UNCHANGED aux
    \/ \E p \in Procs : Crash(p) /\ UNCHANGED aux
    \/ \E p \in Procs : Quiet(p) /\ Exit(p) /\ UNCHANGED aux
    \/ \E p \in Procs, q \in Questions : Quiet(p) /\ GetRelevantInsights(p, q) /\ UNCHANGED aux
    \/ \E p \in Procs, q \in Questions : Quiet(p) /\ GetSimilarAnalyses(p, q) /\ UNCHANGED aux

Spec == Init /\ [][Next]_vars

\* ---------------------------------------- loading a directory left by others
\* The knowledge directory is persisted state: what a constructor finds may
\* have been written by another program, another version or by hand.
with_extra(d) == [k \in DOMAIN d \cup {"extra"} |->
                     IF k = "extra" THEN "x" ELSE d[k]]

without_field(d, f) == [k \in DOMAIN d \ {f} |-> d[k]]

GoodInsightDict == asdict_inner(InsightInput(0))

GoodAnalysisDict ==
    [cls |-> "dict", timestamp |-> 0, question |-> "How many survived?",
     approach |-> "pandas_analysis", code |-> "df['Survived'].sum()",
     result |-> "342", insights |-> <<GoodInsightDict>>]

\* Texts of insights.json: empty array, one good entry, the object {}, a
\* text cut short, an entry with an unknown key, an entry lacking a key.
InsightTexts ==
    { <<EmptyTok>>,
      json_dump(<<GoodInsightDict>>),
      <<EmptyObjTok>>,
      <<OpenTok, ObjTok(GoodInsightDict)>>,
      json_dump(<<with_extra(GoodInsightDict)>>),
      json_dump(<<without_field(GoodInsightDict, "source")>>) }

\* Texts of analysis_history.json: one good entry, the object {}, an entry
\* with an unknown key, an entry lacking a key, and entries whose embedded
\* insight has an unknown key or lacks one.
AnalysisTexts ==
    { json_dump(<<GoodAnalysisDict>>),
      <<EmptyObjTok>>,
      json_dump(<<with_extra(GoodAnalysisDict)>>),
      json_dump(<<without_field(GoodAnalysisDict, "result")>>),
      json_dump(<<[GoodAnalysisDict EXCEPT
                     !.insights = <<with_extra(GoodInsightDict)>>]>>),
      json_dump(<<[GoodAnalysisDict EXCEPT
                     !.insights = <<without_field(GoodInsightDict, "source")>>]>>) }

FoundFiles ==
    { [n \in FileNames |-> IF n = "insights.json" THEN fi ELSE fa] :
        fi \in {NoFile} \cup { [exists |-> TRUE, data |-> t] : t \in InsightTexts },
        fa \in {NoFile} \cup { [exists |-> TRUE, data |-> t] : t \in AnalysisTexts } }

InitLoad ==
    /\ dirExists = TRUE
    /\ files \in FoundFiles
    /\ store = [p \in Procs |-> NoStore]
    /\ pc = [p \in Procs |-> "idle"]
    /\ wpos = [p \in Procs |-> 0]
    /\ todo = [p \in Procs |-> <<>>]
    /\ clock = 0
    /\ last = [proc |-> 1, op |-> "none", outcome |-> "ok", ret |-> <<>>]
    /\ pre = NoPre
    /\ calls = [p \in Procs |-> <<>>]
    /\ origin = [p \in Procs |-> NoOrigin]
    /\ AuxInit

\* Constructors and readers on the directory as found.
NextLoad ==
    \/ \E p \in Procs : Construct(p) /\ UNCHANGED aux
    \/ \E p \in Procs : Exit(p) /\ UNCHANGED aux
    \/ \E p \in Procs, q \in Questions : GetRelevantInsights(p, q) /\ UNCHANGED aux
    \/ \E p \in Procs, q \in Questions : GetSimilarAnalyses(p, q) /\ UNCHANGED aux

SpecLoad == InitLoad /\ [][NextLoad]_vars

\* ------------------------------------------------------------ properties
IsPrefix(a, b) == Len(a) <= Len(b) /\ SubSeq(b, 1, Len(a)) = a

\* The two files as _save_knowledge leaves them for a store.
DiskOf(self) ==
    [n \in FileNames |->
        [exists |-> TRUE,
         data |-> IF n = "insights.json"
                  THEN json_dump(asdict_list(self.insights))
                  ELSE json_dump(asdict_list(self.analysis_history))]]

\* C1: right after a successful add_insight (the store holding N >= 1
\* insights by then), a fresh KnowledgeBase on the same directory loads
\* without error an insights collection equal to the in-memory one.
C1_RoundTripInsights ==
    (last.op = "add_insight" /\ last.outcome = "ok")
        => /\ load_knowledge(files).ok
           /\ load_knowledge(files).insights = store[last.proc].insights

C1_Witness ==
    /\ last.op = "add_insight"
    /\ last.outcome = "ok"
    /\ Len(store[last.proc].insights) = 2

\* C2: a store that started empty holds exactly one analysis entry per
\* record_analysis call, in call order, and every step leaves the previous
\* content of both collections of a store as a prefix of the new content.
C2_CallOrder ==
    \A p \in Procs :
        (store[p].live /\ origin[p].emptyStore)
            => /\ Len(store[p].analysis_history) = Len(calls[p])
               /\ \A k \in 1..Len(calls[p]) :
                     LET e == store[p].analysis_history[k]
                         c == calls[p][k]
                     IN  /\ e.timestamp = c.at
                         /\ e.question = c.args.question
                         /\ e.approach = c.args.approach
                         /\ e.code = c.args.code
                         /\ e.result = c.args.result

C2_PrefixStep ==
    \A p \in Procs :
        (store[p].live /\ store'[p].live)
            => /\ IsPrefix(store[p].insights, store'[p].insights)
               /\ IsPrefix(store[p].analysis_history,
                           store'[p].analysis_history)

\* C2: append-only history, the call-order invariant together with the
\* prefix property of every step.
C2_AppendOnly == []C2_CallOrder /\ [][C2_PrefixStep]_vars

C2_Witness ==
    \E p \in Procs :
        /\ store[p].live
        /\ origin[p].emptyStore
        /\ pc[p] = "idle"
        /\ Len(calls[p]) = 2

\* C3: when the write step of a mutation is interrupted (exception or
\* crash inside _save_knowledge), each file still holds its pre-mutation
\* content and a fresh store loads from the directory.
C3_AtomicWrite ==
    (last.op \in Mutators /\ last.outcome \in {"error", "crash"})
        => /\ files = pre.files
           /\ load_knowledge(files).ok

\* C4: when the write fails during add_insight or record_analysis, the
\* in-memory collections afterwards equal those before the call.
C4_Rollback ==
    (last.op \in Mutators /\ last.outcome = "error")
        => /\ store[last.proc].insights = pre.insights
           /\ store[last.proc].analysis_history = pre.analysis_history

\* C5: right after a successful add_insight or record_analysis, each file
\* holds the serialization of the corresponding in-memory collection.
C5_MemoryDiskAgree ==
    (last.op \in Mutators /\ last.outcome = "ok")
        => files = DiskOf(store[last.proc])

C5_Witness ==
    /\ last.op = "record_analysis"
    /\ last.outcome = "ok"
    /\ Len(store[last.proc].insights) = 1
    /\ Len(store[last.proc].analysis_history) = 1

\* C6: on a store freshly constructed on an empty directory both
\* retrieval operations return the empty sequence for every question.
C6_EmptyStoreRetrieval ==
    /\ \A p \in Procs : \A q \in Questions :
          (store[p].live /\ origin[p].emptyDir /\ origin[p].fresh)
              => /\ get_relevant_insights(store[p], q) = <<>>
                 /\ get_similar_analyses(store[p], q) = <<>>
    /\ (/\ last.op \in {"get_relevant_insights", "get_similar_analyses"}
        /\ origin[last.proc].emptyDir
        /\ origin[last.proc].fresh)
          => (last.outcome = "ok" /\ last.ret = <<>>)

C6_Witness ==
    /\ last.op = "get_relevant_insights"
    /\ origin[last.proc].emptyDir
    /\ origin[last.proc].fresh

\* C7: a second KnowledgeBase constructed on a directory whose files hold
\* what a first, live instance holds does not raise, holds the same
\* records in the same order (compared by field values) and the
\* constructor leaves both files as they were.
C7_SecondInstance ==
    \A q \in Procs \ {last.proc} :
        (last.op = "construct" /\ store[q].live /\ pc[q] = "idle"
            /\ files = DiskOf(store[q]))
            => /\ last.outcome = "ok"
               /\ store[last.proc].live
               /\ store[last.proc].insights = store[q].insights
               /\ asdict_list(store[last.proc].analysis_history)
                     = asdict_list(store[q].analysis_history)

C7_ConstructKeepsFiles == (\E p \in Procs : Construct(p)) => files' = files

\* C7: idempotent bootstrap, the second-instance invariant together with
\* the constructor leaving the files alone.
C7_IdempotentBootstrap == []C7_SecondInstance /\ [][C7_ConstructKeepsFiles]_vars

C7_Witness ==
    /\ last.op = "construct"
    /\ last.outcome = "ok"
    /\ \E q \in Procs \ {last.proc} :
          /\ store[q].live
          /\ files = DiskOf(store[q])
          /\ Len(store[q].insights) = 1
          /\ Len(store[q].analysis_history) = 1

\* C8: on a store constructed on an empty directory, after one
\* record_analysis call, get_similar_analyses returns for every question
\* exactly one element, whose question is the one recorded.
C8_EndToEnd ==
    (/\ last.op = "get_similar_analyses"
     /\ origin[last.proc].emptyDir
     /\ Len(calls[last.proc]) = 1)
        => /\ Len(last.ret) = 1
           /\ last.ret[1].question = calls[last.proc][1].args.question

C8_Witness ==
    /\ last.op = "get_similar_analyses"
    /\ origin[last.proc].emptyDir
    /\ Len(calls[last.proc]) = 1
    /\ Len(last.ret) = 1

\* C9: get_relevant_insights returns the whole insights collection and
\* get_similar_analyses the whole analysis history, in order, whatever the
\* question.
C9_Placeholder ==
    /\ last.op = "get_relevant_insights"
          => last.ret = store[last.proc].insights
    /\ last.op = "get_similar_analyses"
          => last.ret = store[last.proc].analysis_history
    /\ \A p \in Procs : \A q1 \in Questions, q2 \in Questions :
          store[p].live
              => /\ get_relevant_insights(store[p], q1)
                       = get_relevant_insights(store[p], q2)
                 /\ get_similar_analyses(store[p], q1)
                       = get_similar_analyses(store[p], q2)

C9_Witness ==
    /\ last.op = "get_relevant_insights"
    /\ Len(last.ret) = 2

\* C10: a constructor raises only because a file that exists cannot be
\* loaded, never because a file is missing, and a collection whose file is
\* missing is empty whether or not the other file exists.
C10_MissingFiles ==
    last.op = "construct"
        => /\ last.outcome = "error"
                 => \/ (files["insights.json"].exists /\ ~load_insights(files).ok)
                    \/ (files["analysis_history.json"].exists
                          /\ ~load_analyses(files).ok)
           /\ last.outcome = "ok"
                 => /\ store[last.proc].live
                    /\ ~files["insights.json"].exists
                          => store[last.proc].insights = <<>>
                    /\ ~files["analysis_history.json"].exists
                          => store[last.proc].analysis_history = <<>>

C10_Witness ==
    /\ last.op = "construct"
    /\ last.outcome = "ok"
    /\ files["insights.json"].exists
    /\ ~files["analysis_history.json"].exists
    /\ Len(store[last.proc].insights) = 1

\* The text is a complete JSON array of objects.
IsArrayOfObjects(data) ==
    \/ data = <<EmptyTok>>
    \/ /\ Len(data) >= 2
       /\ data[1] = OpenTok
       /\ data[Len(data)] = CloseTok
       /\ \A i \in 2..(Len(data) - 1) : data[i].tok = "obj"

C11_Raises ==
    (/\ last.op = "construct"
     /\ \E n \in FileNames : files[n].exists /\ ~IsArrayOfObjects(files[n].data))
        => (last.outcome = "error" /\ ~store[last.proc].live)

C11_FilesKept == (\E p \in Procs : Construct(p)) => files' = files

\* C11: a constructor that finds an existing file whose text is not an
\* array of objects raises, produces no store, and leaves the files as
\* they are.
C11_MalformedFailsLoudly == []C11_Raises /\ [][C11_FilesKept]_vars

\* ------------------------------------------------------------------
\* The command line run: scripts/titanic_data_analyst_cli.py main()
\* ------------------------------------------------------------------

\* the question of the run and what agent.run returns for it
CliQuestion == "How many survived?"

AgentResult == "342"

\* the arguments main passes to record_analysis: code and result are both
\* the agent's result
main_args ==
    [question |-> CliQuestion, approach |-> "pandas_analysis",
     code |-> AgentResult, result |-> AgentResult]

\* Starting the script imports tools.knowledge, whose module level builds
\* knowledge_base; an exception there ends the process before main.
CliImport(p) ==
    /\ cli[p].stage \in {"off", "exited"}
    /\ Construct(p)
    /\ cli' = [cli EXCEPT ![p] =
                 [stage |-> IF load_knowledge(files).ok THEN "main" ELSE "off",
                  computed |-> FALSE, shown |-> FALSE]]

\* what a step of main leaves alone besides the knowledge store
noncli == <<owner, added, dirvars, nbvars, misc>>

\* result = agent.run(question) returns.
CliAgentRun(p) ==
    /\ cli[p].stage = "main"
    /\ cli' = [cli EXCEPT ![p].stage = "computed", ![p].computed = TRUE]
    /\ UNCHANGED kbvars

\* agent.run (or creating the model and agent) raises: the except block.
CliAgentRaises(p) ==
    /\ cli[p].stage = "main"
    /\ cli' = [cli EXCEPT ![p].stage = "failed"]
    /\ UNCHANGED kbvars

\* record_analysis(question, "pandas_analysis", result, result) is called.
CliRecord(p) ==
    /\ cli[p].stage = "computed"
    /\ RecordAnalysis(p, main_args)
    /\ cli' = [cli EXCEPT ![p].stage = "recording"]

\* The save inside record_analysis goes on; when its last write is done
\* record_analysis returns to main.
CliRecorded(p) ==
    /\ cli[p].stage = "recording"
    /\ SaveWriteAnalysis(p)
    /\ cli' = [cli EXCEPT ![p].stage =
                 IF pc'[p] = "idle" THEN "recorded" ELSE @]

\* The save raises: the exception leaves record_analysis and reaches the
\* except block of main.
CliRecordRaises(p) ==
    /\ cli[p].stage = "recording"
    /\ WriteFails(p)
    /\ cli' = [cli EXCEPT ![p].stage = "failed"]

\* print("\nResult:"); print(result)
CliPrintResult(p) ==
    /\ cli[p].stage = "recorded"
    /\ cli' = [cli EXCEPT ![p].stage = "shown", ![p].shown = TRUE]
    /\ UNCHANGED kbvars

\* similar = knowledge_base.get_similar_analyses(question), printed.
CliSimilar(p) ==
    /\ cli[p].stage = "shown"
    /\ GetSimilarAnalyses(p, CliQuestion)
    /\ cli' = [cli EXCEPT ![p].stage = "done"]

\* main returns and the process ends.
CliReturn(p) ==
    /\ cli[p].stage = "done"
    /\ Exit(p)
    /\ cli' = [cli EXCEPT ![p].stage = "exited"]

\* except Exception: the error is logged and printed, sys.exit(1).
CliExit1(p) ==
    /\ cli[p].stage = "failed"
    /\ Exit(p)
    /\ cli' = [cli EXCEPT ![p].stage = "exited"]

NextCli ==
    \/ \E p \in Procs : Quiet(p) /\ CliImport(p) /\ UNCHANGED noncli
    \/ \E p \in Procs : CliAgentRun(p) /\ UNCHANGED noncli
    \/ \E p \in Procs : CliAgentRaises(p) /\ UNCHANGED noncli
    \/ \E p \in Procs : Quiet(p) /\ CliRecord(p) /\ UNCHANGED noncli
    \/ \E p \in Procs : SaveOpenInsights(p) /\ UNCHANGED aux
    \/ \E p \in Procs : SaveWriteInsights(p) /\ UNCHANGED aux
    \/ \E p \in Procs : SaveOpenAnalysis(p) /\ UNCHANGED aux
    \/ \E p \in Procs : CliRecorded(p) /\ UNCHANGED noncli
    \/ \E p \in Procs : CliRecordRaises(p) /\ UNCHANGED noncli
    \/ \E p \in Procs : CliPrintResult(p) /\ UNCHANGED noncli
    \/ \E p \in Procs : Quiet(p) /\ CliSimilar(p) /\ UNCHANGED noncli
    \/ \E p \in Procs : Quiet(p) /\ CliReturn(p) /\ UNCHANGED noncli
    \/ \E p \in Procs : Quiet(p) /\ CliExit1(p) /\ UNCHANGED noncli

SpecCli == Init /\ [][NextCli]_vars

\* C12: a command line run that is over and whose agent computed a result
\* has shown that result, also when recording the analysis failed.
C12_ResultShown ==
    \A p \in Procs :
        (cli[p].stage = "exited" /\ cli[p].computed) => cli[p].shown

\* ------------------------------------------------------------------
\* A second process loads while a mutation is being saved
\* ------------------------------------------------------------------

\* KnowledgeBase(dir) in process p while another process is inside
\* _save_knowledge: nothing makes the constructor wait.
ConstructDuringMutation(p) ==
    /\ \E q \in Procs \ {p} : pc[q] # "idle"
    /\ Construct(p)

\* Mutations run one after another and none of them fails; constructors
\* run at any time.
NextRead ==
    \/ \E p \in Procs : Quiet(p) /\ Construct(p) /\ UNCHANGED aux
    \/ \E p \in Procs : ConstructDuringMutation(p) /\ UNCHANGED aux
    \/ \E p \in Procs : Quiet(p) /\ AddInsight(p) /\ UNCHANGED aux
    \/ \E p \in Procs, a \in AnalysisArgs : Quiet(p) /\ RecordAnalysis(p, a) /\ UNCHANGED aux
    \/ \E p \in Procs : SaveOpenInsights(p) /\ UNCHANGED aux
    \/ \E p \in Procs : SaveWriteInsights(p) /\ UNCHANGED aux
    \/ \E p \in Procs : SaveOpenAnalysis(p) /\ UNCHANGED aux
    \/ \E p \in Procs : SaveWriteAnalysis(p) /\ UNCHANGED aux
    \/ \E p \in Procs : Quiet(p) /\ Exit(p) /\ UNCHANGED aux

SpecRead == Init /\ [][NextRead]_vars

C13_ReaderStep ==
    \A p \in Procs, q \in Procs :
        (p # q /\ pc[q] # "idle" /\ Construct(p))
            => \A n \in FileNames :
                   files[n] \in {pre.files[n], DiskOf(store[q])[n]}

\* C13: a constructor that runs while another process is inside a mutation
\* reads, for each file, either the file as it was before the mutation or
\* the file as the finished mutation leaves it.
C13_NoTornRead == [][C13_ReaderStep]_vars

\* ------------------------------------------------------------------
\* Two threads of one process use the same knowledge_base
\* ------------------------------------------------------------------

\* the process whose knowledge_base the threads share
Shared == 1

InitThreads ==
    /\ dirExists = FALSE
    /\ files = NoFiles
    /\ store = [p \in Procs |-> NoStore]
    /\ pc = [p \in Procs |-> "idle"]
    /\ wpos = [p \in Procs |-> 0]
    /\ todo = [p \in Procs |-> <<>>]
    /\ clock = 0
    /\ last = [proc |-> 1, op |-> "none", outcome |-> "ok", ret |-> <<>>]
    /\ pre = NoPre
    /\ calls = [p \in Procs |-> <<>>]
    /\ origin = [p \in Procs |-> NoOrigin]
    /\ cli = [p \in Procs |-> NoCli]
    /\ owner = [p \in Procs |-> Shared]
    /\ added = [n \in FileNames |-> <<>>]
    /\ DirsIdle
    /\ NbIdle
    /\ MiscIdle

\* The module is imported once, which builds the store; after that each
\* thread calls the mutators when it likes, and no call fails.
NextThreads ==
    \/ Quiet(Shared) /\ Construct(Shared) /\ UNCHANGED aux
    \/ \E p \in Procs : AddInsight(p) /\ UNCHANGED aux
    \/ \E p \in Procs, a \in AnalysisArgs : RecordAnalysis(p, a) /\ UNCHANGED aux
    \/ \E p \in Procs : SaveOpenInsights(p) /\ UNCHANGED aux
    \/ \E p \in Procs : SaveWriteInsights(p) /\ UNCHANGED aux
    \/ \E p \in Procs : SaveOpenAnalysis(p) /\ UNCHANGED aux
    \/ \E p \in Procs : SaveWriteAnalysis(p) /\ UNCHANGED aux

SpecThreads == InitThreads /\ [][NextThreads]_vars

\* C14: once every mutator called on the shared store has returned, each
\* record added is in the in-memory collections and the two files are the
\* serialization of those collections.
C14_Serialized ==
    (/\ store[Shared].live
     /\ clock > 0
     /\ \A p \in Procs : pc[p] = "idle")
        => /\ Len(store[Shared].insights)
                + Len(store[Shared].analysis_history) = clock
           /\ files = DiskOf(store[Shared])

\* ------------------------------------------------------------------
\* What the files keep of the records added over the life of a directory
\* ------------------------------------------------------------------

\* A caller passes add_insight an insight equal in value to the one added
\* last.
AddInsightAgain(p) ==
    /\ store[owner[p]].live
    /\ store[owner[p]].insights # <<>>
    /\ AddInsightOf(p, store[owner[p]].insights[Len(store[owner[p]].insights)])

\* The last write of _save_knowledge; when it ends the mutator returns,
\* and the entry the call added is noted under the file it belongs to.
SaveWriteAnalysisNoted(p) ==
    /\ SaveWriteAnalysis(p)
    /\ LET self == store[owner[p]]
           n == IF pre.op = "add_insight" THEN "insights.json"
                ELSE "analysis_history.json"
           coll == IF pre.op = "add_insight" THEN self.insights
                   ELSE self.analysis_history
       IN  added' = IF pc'[p] = "idle"
                    THEN [added EXCEPT ![n] = Append(@, asdict(coll[Len(coll)]))]
                    ELSE added
    /\ UNCHANGED <<cli, owner, dirvars, nbvars, misc>>

NextHist ==
    \/ \E p \in Procs : Quiet(p) /\ Construct(p) /\ UNCHANGED aux
    \/ \E p \in Procs : Quiet(p) /\ AddInsight(p) /\ UNCHANGED aux
    \/ \E p \in Procs : Quiet(p) /\ AddInsightAgain(p) /\ UNCHANGED aux
    \/ \E p \in Procs, a \in AnalysisArgs : Quiet(p) /\ RecordAnalysis(p, a) /\ UNCHANGED aux
    \/ \E p \in Procs : SaveOpenInsights(p) /\ UNCHANGED aux
    \/ \E p \in Procs : SaveWriteInsights(p) /\ UNCHANGED aux
    \/ \E p \in Procs : SaveOpenAnalysis(p) /\ UNCHANGED aux
    \/ \E p \in Procs : SaveWriteAnalysisNoted(p)
    \/ \E p \in Procs : WriteFails(p) /\ UNCHANGED aux
    \/ \E p \in Procs : Crash(p) /\ UNCHANGED aux
    \/ \E p \in Procs : Quiet(p) /\ Exit(p) /\ UNCHANGED aux

SpecHist == Init /\ [][NextHist]_vars

\* a is b with some elements left out
RECURSIVE IsSubseq(_, _)
IsSubseq(a, b) ==
    IF a = <<>> THEN TRUE
    ELSE IF b = <<>> THEN FALSE
    ELSE IF Head(a) = Head(b) THEN IsSubseq(Tail(a), Tail(b))
    ELSE IsSubseq(a, Tail(b))

\* The entries of the array a file holds; none when it holds no array.
entries(f) ==
    IF f.exists /\ IsArrayOfObjects(f.data) THEN json_load(f.data) ELSE <<>>

\* C15: whenever no operation is running, the array in each file lists
\* every entry added by a mutator call that returned, in the order of the
\* calls, equal entries as often as they were added.
C15_InsertionOrder ==
    (\A p \in Procs : pc[p] = "idle")
        => \A n \in FileNames : IsSubseq(added[n], entries(files[n]))

\* C16: a constructor that returns a store has found, in the files that
\* exist, only records with exactly the fields of their class: the entries
\* of insights.json, the entries of analysis_history.json, and the insight
\* objects embedded in those.
C16_ValidatedOnLoad ==
    (last.op = "construct" /\ last.outcome = "ok")
        => /\ \A i \in 1..Len(entries(files["insights.json"])) :
                 insight_keys_ok(entries(files["insights.json"])[i])
           /\ \A i \in 1..Len(entries(files["analysis_history.json"])) :
                 LET e == entries(files["analysis_history.json"])[i]
                 IN  /\ analysis_keys_ok(e)
                     /\ \A k \in 1..Len(e.insights) :
                            insight_keys_ok(e.insights[k])

\* C17: right after a successful record_analysis, a fresh KnowledgeBase on
\* the same directory loads an analysis history equal to the in-memory
\* one, the insights of each step being DataInsight records again.
C17_RoundTripAnalyses ==
    (last.op = "record_analysis" /\ last.outcome = "ok")
        => /\ load_knowledge(files).ok
           /\ load_knowledge(files).analysis_history
                  = store[last.proc].analysis_history

\* the four strings of an analysis record are those of the arguments
SameFour(r, a) ==
    /\ r.question = a.question
    /\ r.approach = a.approach
    /\ r.code = a.code
    /\ r.result = a.result

C18_AppendsOne ==
    \A p \in Procs, a \in AnalysisArgs :
        RecordAnalysis(p, a)
            => LET h == store[owner[p]].analysis_history
                   h2 == store'[owner[p]].analysis_history
               IN  /\ Len(h2) = Len(h) + 1
                   /\ SubSeq(h2, 1, Len(h)) = h
                   /\ SameFour(h2[Len(h2)], a)
                   /\ store'[owner[p]].insights = store[owner[p]].insights

C18_Replayed ==
    (last.op = "get_similar_analyses" /\ last.outcome = "ok")
        => \A k \in 1..Len(calls[last.proc]) :
               \E i \in 1..Len(last.ret) :
                   SameFour(last.ret[i], calls[last.proc][k].args)

\* C18: a record_analysis call appends exactly one analysis record, whose
\* question, approach, code and result are the arguments unchanged, and a
\* later get_similar_analyses on that store returns a record with those
\* four values for every call made.
C18_PersistAndReplay == []C18_Replayed /\ [][C18_AppendsOne]_vars

C18_Witness ==
    /\ last.op = "get_similar_analyses"
    /\ last.outcome = "ok"
    /\ Len(calls[last.proc]) = 2
    /\ Len(last.ret) = 2

\* ------------------------------------------------------------------
\* ensure_directories called again and again
\* ------------------------------------------------------------------

\* The application calls ensure_directories with some base_dir, dirs and
\* create_parents on whatever tree it finds.
InitDirs ==
    /\ KbInit
    /\ KbAuxInit
    /\ NbIdle
    /\ MiscIdle
    /\ tree \in Trees
    /\ \E dirs \in DirLists, create_parents \in BOOLEAN :
           ens = [NoEns EXCEPT !.dirs = dirs,
                               !.create_parents = create_parents,
                               !.before = tree]

\* One more call with the same arguments.
EnsureDirectories ==
    /\ ens.calls < MaxCalls
    /\ LET r == ensure_directories(tree, ens.base_dir, ens.dirs,
                                   ens.create_parents)
       IN  /\ tree' = r.tree
           /\ ens' = [ens EXCEPT !.calls = @ + 1,
                                 !.last = r,
                                 !.first = IF ens.calls = 0 THEN r ELSE @]
    /\ UNCHANGED <<kbvars, cli, owner, added, nbvars, misc>>

NextDirs == EnsureDirectories

SpecDirs == InitDirs /\ [][NextDirs]_vars

\* C19: no call of ensure_directories raises because a directory it was
\* asked for is already there, and after the second and every later call
\* with the same arguments the tree is the one the first call left.
C19_Idempotent ==
    /\ ens.calls >= 1
          => ~(ens.last.err = "FileExistsError"
               /\ kind(tree, ens.last.path) = "dir")
    /\ ens.calls >= 2 => tree = ens.first.tree

C19_Witness ==
    /\ ens.calls >= 2
    /\ ens.last.err = "none"
    /\ ens.before # tree
    /\ Len(ens.dirs) = 2

\* ------------------------------------------------------------------
\* NotebookRunner.run
\* ------------------------------------------------------------------

\* A runner was built (the notebook exists) with some in_place and
\* keep_convert; a .nbconvert.ipynb of an earlier run may lie beside it.
InitNb ==
    /\ KbInit
    /\ KbAuxInit
    /\ DirsIdle
    /\ MiscIdle
    /\ \E in_place \in BOOLEAN, keep_convert \in BOOLEAN :
           nb = [NoNb EXCEPT !.in_place = in_place,
                             !.keep_convert = keep_convert]
    /\ \E convert \in BOOLEAN : nbfiles = [NoNbFiles EXCEPT !.convert = convert]

\* what a step of run() leaves alone
nonnb == <<kbvars, cli, owner, added, dirvars, misc>>

\* run() is called.
Run ==
    /\ nb.pc = "idle"
    /\ nb.runs < MaxRuns
    /\ nb' = [nb EXCEPT !.pc = run_entry(nb), !.attempts = <<>>,
                        !.failed = {}, !.outcome = "running",
                        !.runs = @ + 1, !.produced = FALSE]
    /\ UNCHANGED <<nbfiles, nonnb>>

\* _run_in_place: jupyter nbconvert --execute --inplace; a return code
\* other than 0 (or a command that cannot be started) raises, which run
\* catches to fall back to regular execution.
RunInPlaceCommand ==
    /\ nb.pc = "in_place"
    /\ \E ok \in BOOLEAN :
           IF ok
           THEN /\ nb' = [nb EXCEPT !.attempts = Append(@, "in_place"),
                                    !.pc = "in_place_convert"]
                /\ nbfiles' = [nbfiles EXCEPT !.notebook = "executed"]
           ELSE /\ nb' = [nb EXCEPT !.attempts = Append(@, "in_place"),
                                    !.failed = @ \cup {"in_place"},
                                    !.pc = "regular"]
                /\ UNCHANGED nbfiles
    /\ UNCHANGED nonnb

\* _run_in_place: an existing .nbconvert.ipynb is kept or unlinked; an
\* unlink that raises makes the in-place attempt fail.
RunInPlaceConvert ==
    /\ nb.pc = "in_place_convert"
    /\ IF nbfiles.convert /\ ~nb.keep_convert
       THEN \E ok \in BOOLEAN :
               IF ok
               THEN /\ nbfiles' = [nbfiles EXCEPT !.convert = FALSE]
                    /\ nb' = [nb EXCEPT !.pc = "idle", !.outcome = "returned"]
               ELSE /\ nb' = [nb EXCEPT !.failed = @ \cup {"in_place"},
                                        !.pc = "regular"]
                    /\ UNCHANGED nbfiles
       ELSE /\ nb' = [nb EXCEPT !.pc = "idle", !.outcome = "returned"]
            /\ UNCHANGED nbfiles
    /\ UNCHANGED nonnb

\* _run_regular: jupyter nbconvert --execute writes the .nbconvert.ipynb;
\* a return code other than 0 raises, and run logs and raises again.
RunRegularCommand ==
    /\ nb.pc = "regular"
    /\ \E ok \in BOOLEAN, written \in BOOLEAN :
           IF ok
           THEN /\ nb' = [nb EXCEPT !.attempts = Append(@, "regular"),
                                    !.pc = "regular_output",
                                    !.produced = written]
                /\ nbfiles' = [nbfiles EXCEPT !.convert = @ \/ written]
           ELSE /\ nb' = [nb EXCEPT !.attempts = Append(@, "regular"),
                                    !.failed = @ \cup {"regular"},
                                    !.pc = "idle", !.outcome = "raised"]
                /\ UNCHANGED nbfiles
    /\ UNCHANGED nonnb

\* _run_regular: FileNotFoundError without the output file; otherwise
\* output_file.replace(notebook_path), which may raise.
RunRegularOutput ==
    /\ nb.pc = "regular_output"
    /\ IF ~nbfiles.convert
       THEN /\ nb' = [nb EXCEPT !.failed = @ \cup {"regular"},
                                !.pc = "idle", !.outcome = "raised"]
            /\ UNCHANGED nbfiles
       ELSE \E ok \in BOOLEAN :
               IF ok
               THEN /\ nbfiles' = [notebook |-> "executed", convert |-> FALSE]
                    /\ nb' = [nb EXCEPT !.pc = "regular_cleanup"]
               ELSE /\ nb' = [nb EXCEPT !.failed = @ \cup {"regular"},
                                        !.pc = "idle", !.outcome = "raised"]
                    /\ UNCHANGED nbfiles
    /\ UNCHANGED nonnb

\* _run_regular: the output file is unlinked if it is not to be kept and
\* still exists; then _run_regular and run return.
RunRegularCleanup ==
    /\ nb.pc = "regular_cleanup"
    /\ IF ~nb.keep_convert /\ nbfiles.convert
       THEN \E ok \in BOOLEAN :
               IF ok
               THEN /\ nbfiles' = [nbfiles EXCEPT !.convert = FALSE]
                    /\ nb' = [nb EXCEPT !.pc = "idle", !.outcome = "returned"]
               ELSE /\ nb' = [nb EXCEPT !.failed = @ \cup {"regular"},
                                        !.pc = "idle", !.outcome = "raised"]
                    /\ UNCHANGED nbfiles
       ELSE /\ nb' = [nb EXCEPT !.pc = "idle", !.outcome = "returned"]
            /\ UNCHANGED nbfiles
    /\ UNCHANGED nonnb

NextNb ==
    \/ Run
    \/ RunInPlaceCommand
    \/ RunInPlaceConvert
    \/ RunRegularCommand
    \/ RunRegularOutput
    \/ RunRegularCleanup

SpecNb == InitNb /\ [][NextNb]_vars

\* the kinds of execution attempted in the run
Attempted == {nb.attempts[i] : i \in 1..Len(nb.attempts)}

\* C20: in a run that is over, with in_place the in-place execution was
\* attempted first and the regular one exactly if the in-place attempt
\* failed; without in_place no in-place execution is ever attempted; and
\* run raised exactly if the regular execution was attempted and failed.
C20_FallbackOrder ==
    /\ ~nb.in_place => "in_place" \notin Attempted
    /\ nb.outcome \in {"returned", "raised"}
          => /\ nb.in_place
                   => /\ nb.attempts # <<>>
                      /\ nb.attempts[1] = "in_place"
                      /\ ("regular" \in Attempted) <=> ("in_place" \in nb.failed)
             /\ (nb.outcome = "raised")
                   <=> ("regular" \in Attempted /\ "regular" \in nb.failed)

C20_Witness ==
    /\ nb.outcome = "returned"
    /\ nb.in_place
    /\ nb.attempts = <<"in_place", "regular">>
    /\ nb.failed = {"in_place"}

\* C21: after a run that returned, the .nbconvert.ipynb exists if
\* keep_convert is set and an execution of the run wrote it, and does not
\* exist if keep_convert is not set.
C21_ConvertFileManaged ==
    nb.outcome = "returned"
        => /\ (nb.keep_convert /\ nb.produced) => nbfiles.convert
           /\ ~nb.keep_convert => ~nbfiles.convert

\* ------------------------------------------------------------------
\* Calls into the pipeline module
\* ------------------------------------------------------------------

\* what earlier processes can have left in data_sources: nothing, the
\* downloaded CSV only, CSV and database, or the empty database file
\* that a load without a database creates (with or without the CSV)
FoundData ==
    {<<FALSE, "absent">>, <<TRUE, "absent">>, <<TRUE, "table">>,
     <<FALSE, "empty">>, <<TRUE, "empty">>}

\* The module is imported with data_sources as it was left.
InitPl ==
    /\ KbInit
    /\ KbAuxInit
    /\ DirsIdle
    /\ NbIdle
    /\ cr = NoCr
    /\ ui = NoUi
    /\ \E found \in FoundData :
           pl = [NoPl EXCEPT !.csv = found[1], !.db = found[2]]

\* what a step of the pipeline module leaves alone
nonpl == <<kbvars, cli, owner, added, dirvars, nbvars, cr, ui>>

\* run_titanic_pipeline() is called.
RunTitanicPipeline ==
    /\ pl.pc = "idle"
    /\ pl.calls < MaxPipelineCalls
    /\ pl' = [pl EXCEPT !.op = "run_titanic_pipeline", !.pc = "download",
                        !.outcome = "running", !.loaded = FALSE,
                        !.calls = @ + 1]
    /\ UNCHANGED nonpl

\* get_sqlite_connection() is called: the pipeline is run first if the
\* database file does not exist.
GetSqliteConnection ==
    /\ pl.pc = "idle"
    /\ pl.calls < MaxPipelineCalls
    /\ pl' = [pl EXCEPT !.op = "get_sqlite_connection",
                        !.pc = IF pl.db = "absent" THEN "download"
                               ELSE "connect",
                        !.outcome = "running", !.loaded = FALSE,
                        !.calls = @ + 1]
    /\ UNCHANGED nonpl

\* get_titanic_data() is called: it goes straight to load_titanic_data().
GetTitanicData ==
    /\ pl.pc = "idle"
    /\ pl.calls < MaxPipelineCalls
    /\ pl' = [pl EXCEPT !.op = "get_titanic_data", !.pc = "load",
                        !.outcome = "running", !.loaded = FALSE,
                        !.calls = @ + 1]
    /\ UNCHANGED nonpl

\* download_titanic_dataset: the CSV is fetched unless it exists; a failed
\* request raises.
DownloadTitanicDataset ==
    /\ pl.pc = "download"
    /\ IF pl.csv
       THEN pl' = [pl EXCEPT !.pc = "convert"]
       ELSE \E ok \in BOOLEAN :
               pl' = IF ok
                     THEN [pl EXCEPT !.csv = TRUE, !.pc = "convert"]
                     ELSE [pl EXCEPT !.pc = "idle", !.outcome = "raised"]
    /\ UNCHANGED nonpl

\* convert_to_sqlite: the table is written unless the database file
\* exists; then the flow returns to its caller.
ConvertToSqlite ==
    /\ pl.pc = "convert"
    /\ pl' = [pl EXCEPT !.db = IF @ = "absent" THEN "table" ELSE @,
                        !.pc = IF pl.op = "get_sqlite_connection"
                               THEN "connect" ELSE "idle",
                        !.outcome = IF pl.op = "get_sqlite_connection"
                                    THEN @ ELSE "returned"]
    /\ UNCHANGED nonpl

\* sqlite3.connect(TITANIC_DB_PATH): a missing file is created empty.
Connect ==
    /\ pl.pc = "connect"
    /\ pl' = [pl EXCEPT !.db = IF @ = "absent" THEN "empty" ELSE @,
                        !.pc = "idle", !.outcome = "returned"]
    /\ UNCHANGED nonpl

\* load_titanic_data: the engine opens the database file, creating an
\* empty one if there is none, and SELECT * FROM titanic raises unless the
\* table is there.
LoadTitanicData ==
    /\ pl.pc = "load"
    /\ pl' = [pl EXCEPT !.db = IF @ = "absent" THEN "empty" ELSE @,
                        !.loaded = TRUE,
                        !.pc = "idle",
                        !.outcome = IF pl.db = "table" THEN "returned"
                                    ELSE "raised"]
    /\ UNCHANGED nonpl

NextPl ==
    \/ RunTitanicPipeline
    \/ GetSqliteConnection
    \/ GetTitanicData
    \/ DownloadTitanicDataset
    \/ ConvertToSqlite
    \/ Connect
    \/ LoadTitanicData

SpecPl == InitPl /\ [][NextPl]_vars

\* C22: when get_titanic_data has carried out its load, the download and
\* the conversion are done: the CSV is there and the database holds the
\* table, also when the call found no database file.
C22_PipelineBeforeLoad ==
    (pl.op = "get_titanic_data" /\ pl.loaded)
        => (pl.csv /\ pl.db = "table")

\* ------------------------------------------------------------------
\* Calls on one CodeRunner
\* ------------------------------------------------------------------

\* what a call on the CodeRunner leaves alone
noncr == <<kbvars, cli, owner, added, dirvars, nbvars, pl, ui>>

\* execute_code(code): exec on locals_dict, then the value of "_" in
\* locals_dict as a string; an exception is logged and raised again.
ExecuteCode(code) ==
    /\ cr.calls < MaxExec
    /\ LET r == exec(code, cr.globals, cr.locals)
       IN  cr' = [globals |-> cr.globals, locals |-> r.locals,
                  op |-> "execute_code", code |-> code,
                  outcome |-> IF r.raised THEN "raised" ELSE "returned",
                  ret |-> IF r.raised THEN "" ELSE get_result(r.locals),
                  calls |-> cr.calls + 1]
    /\ UNCHANGED noncr

\* clear_locals()
ClearLocals ==
    /\ cr.calls < MaxExec
    /\ cr' = [globals |-> cr.globals, locals |-> <<>>,
              op |-> "clear_locals", code |-> <<>>,
              outcome |-> "returned", ret |-> "", calls |-> cr.calls + 1]
    /\ UNCHANGED noncr

\* update_globals(new_globals)
UpdateGlobals(new_globals) ==
    /\ cr.calls < MaxExec
    /\ cr' = [globals |-> new_globals @@ cr.globals, locals |-> cr.locals,
              op |-> "update_globals", code |-> <<>>,
              outcome |-> "returned", ret |-> "", calls |-> cr.calls + 1]
    /\ UNCHANGED noncr

NextCr ==
    \/ \E code \in Codes : ExecuteCode(code)
    \/ ClearLocals
    \/ \E new_globals \in GlobalsInputs : UpdateGlobals(new_globals)

SpecCr == Init /\ [][NextCr]_vars

\* the positions of the code that assign to "_" and are reached
BindsResult(code) ==
    { i \in 1..Len(code) :
          /\ code[i].op \in {"assign", "assign_y"}
          /\ code[i].name = "_"
          /\ \A k \in 1..i : code[k].op # "raise" }

\* the value the statement assigns: its literal, or what "y" holds
Assigned(st) ==
    IF st.op = "assign" THEN st.val
    ELSE IF "y" \in DOMAIN cr.locals THEN cr.locals["y"]
    ELSE cr.globals["y"]

\* C23: an execute_code call that returned gave the string of the value
\* its own code assigned to "_" last, or the empty string when its code
\* assigned nothing to "_", whatever was executed before.
C23_ResultOfThisCode ==
    (cr.op = "execute_code" /\ cr.outcome = "returned")
        => IF BindsResult(cr.code) = {}
           THEN cr.ret = ""
           ELSE \E i \in BindsResult(cr.code) :
                    /\ \A k \in BindsResult(cr.code) : k <= i
                    /\ cr.ret = str(Assigned(cr.code[i]))

\* ------------------------------------------------------------------
\* The chat session: start and handle_message of chat_app.py
\* ------------------------------------------------------------------

\* what the chat handlers leave alone
nonui == <<kbvars, cli, owner, added, ens, nbvars, pl, cr>>

\* the id of the message made last
newest(st) == Len(st.msgs)

\* an exception inside the try of handle_message: on to the except clause
except(st) == [st EXCEPT !.pc = "error"]

\* ui.update_thought_process(thought): update_message on the thoughts
\* message when there is one
update_thought_process(st, content, update_ok, send_ok) ==
    IF st.thoughts_msg # <<>>
    THEN update_message(st, st.thoughts_msg[1], content, update_ok, send_ok)
    ELSE [st EXCEPT !.upd = NoUpd]

\* start(): ensure_directories, initialize_technical_details and
\* display_suggested_prompts; any exception leaves start.
Start ==
    /\ ui.pc = "idle"
    /\ ~ui.chat
    /\ LET r == ensure_directories(tree, BaseDir, << <<"logs">>, <<"data">> >>,
                                   TRUE)
           began == [ui EXCEPT !.chat = TRUE, !.upd = NoUpd]
       IN  /\ tree' = r.tree
           /\ IF r.err # "none"
              THEN ui' = [began EXCEPT !.outcome = "raised"]
              ELSE \E technical_ok, prompts_ok \in BOOLEAN :
                     LET made == new_message(began, "Technical Details: 0 tokens",
                                             "System")
                         kept == [made EXCEPT
                                     !.technical_msg = <<newest(made)>>]
                         sent == send(kept, newest(kept))
                         prompts == new_message(sent, "Suggested Prompts",
                                                "System")
                     IN  ui' = IF ~technical_ok
                               THEN [kept EXCEPT !.outcome = "raised"]
                               ELSE IF ~prompts_ok
                               THEN [prompts EXCEPT !.outcome = "raised"]
                               ELSE [send(prompts, newest(prompts))
                                         EXCEPT !.outcome = "returned"]
    /\ UNCHANGED nonui

\* handle_message up to the end of ui.start_thought_process(): the thoughts
\* message is made, kept in ui.thoughts_msg and sent.
HandleMessage ==
    /\ ui.pc = "idle"
    /\ ui.chat
    /\ ui.handled < MaxMessages
    /\ \E send_ok \in BOOLEAN :
         LET made == new_message(ui, "Analyzing your question...",
                                 "Assistant")
             kept == [made EXCEPT !.thoughts_msg = <<newest(made)>>,
                                  !.handled = @ + 1,
                                  !.outcome = "running",
                                  !.resp = NoUi.resp,
                                  !.started = <<>>,
                                  !.upd = NoUpd]
         IN  ui' = IF send_ok
                   THEN [send(kept, newest(kept))
                             EXCEPT !.started = <<newest(kept)>>,
                                    !.pc = "analyze"]
                   ELSE except(kept)
    /\ UNCHANGED <<nonui, tree>>

\* process_message: ui.update_thought_process("Analyzing your question...")
Analyze ==
    /\ ui.pc = "analyze"
    /\ \E update_ok, send_ok \in BOOLEAN :
         LET st == update_thought_process(
                       ui, "Thinking: Analyzing your question...",
                       update_ok, send_ok)
         IN  ui' = IF st.upd.raised THEN except(st)
                   ELSE [st EXCEPT !.pc = "invoke"]
    /\ UNCHANGED <<nonui, tree>>

\* process_message: self.agent.ainvoke returns a response
Invoke ==
    /\ ui.pc = "invoke"
    /\ \E r \in Responses :
         ui' = [ui EXCEPT !.resp = r, !.pc = "thought", !.upd = NoUpd]
    /\ UNCHANGED <<nonui, tree>>

\* process_message: self.agent.ainvoke raises
InvokeRaises ==
    /\ ui.pc = "invoke"
    /\ ui' = except([ui EXCEPT !.upd = NoUpd])
    /\ UNCHANGED <<nonui, tree>>

\* process_message: the thought of the response is shown
Thought ==
    /\ ui.pc = "thought"
    /\ \E update_ok, send_ok \in BOOLEAN :
         LET st == IF ui.resp.thought
                   THEN update_thought_process(ui, "Thinking: thought",
                                               update_ok, send_ok)
                   ELSE [ui EXCEPT !.upd = NoUpd]
         IN  ui' = IF st.upd.raised THEN except(st)
                   ELSE [st EXCEPT !.pc = "formulate"]
    /\ UNCHANGED <<nonui, tree>>

\* process_message: the content of the response is the final answer
Formulate ==
    /\ ui.pc = "formulate"
    /\ \E update_ok, send_ok \in BOOLEAN :
         LET st == IF ui.resp.content
                   THEN update_thought_process(
                            ui, "Thinking: Formulating response: answer",
                                               update_ok, send_ok)
                   ELSE [ui EXCEPT !.upd = NoUpd]
         IN  ui' = IF st.upd.raised THEN except(st)
                   ELSE [st EXCEPT !.pc = "respond"]
    /\ UNCHANGED <<nonui, tree>>

\* handle_message: the response message is sent empty and the final answer,
\* if there is one, streamed into it
Respond ==
    /\ ui.pc = "respond"
    /\ \E send_ok, stream_ok \in BOOLEAN :
         LET made == new_message([ui EXCEPT !.upd = NoUpd], "", "Assistant")
             msg == newest(made)
             sent == send(made, msg)
             streamed == [sent EXCEPT !.msgs[msg].content = "answer",
                                      !.screen[msg].content = "answer"]
         IN  ui' = IF ~send_ok THEN except(made)
                   ELSE IF ~ui.resp.content THEN [sent EXCEPT !.pc = "end"]
                   ELSE IF ~stream_ok THEN except(sent)
                   ELSE [streamed EXCEPT !.pc = "end"]
    /\ UNCHANGED <<nonui, tree>>

\* ui.end_thought_process(): the thoughts message is updated to
\* "Analysis Complete" and ui.thoughts_msg set to None
EndThoughtProcess ==
    /\ ui.pc = "end"
    /\ \E update_ok, send_ok \in BOOLEAN :
         LET st == update_thought_process(ui, Complete, update_ok, send_ok)
         IN  ui' = IF st.upd.raised THEN except(st)
                   ELSE [st EXCEPT !.thoughts_msg = <<>>,
                                   !.pc = "technical"]
    /\ UNCHANGED <<nonui, tree>>

\* handle_message: "if token_usage: await ui.update_technical_details(...)",
\* which returns at once when there is no technical message
UpdateTechnicalDetails ==
    /\ ui.pc = "technical"
    /\ \E update_ok, send_ok \in BOOLEAN :
         LET st == IF ui.resp.usage /\ ui.technical_msg # <<>>
                   THEN update_message(ui, ui.technical_msg[1],
                                       "Technical Details: 42 tokens",
                                       update_ok, send_ok)
                   ELSE [ui EXCEPT !.upd = NoUpd]
         IN  ui' = IF st.upd.raised THEN except(st)
                   ELSE [st EXCEPT !.pc = "idle", !.outcome = "returned"]
    /\ UNCHANGED <<nonui, tree>>

\* handle_message, except clause: ui.display_error(str(e)) and nothing else
DisplayError ==
    /\ ui.pc = "error"
    /\ \E send_ok \in BOOLEAN :
         LET made == new_message([ui EXCEPT !.upd = NoUpd],
                                 "I apologize, but I encountered an error",
                                 "Assistant")
         IN  ui' = IF send_ok
                   THEN [send(made, newest(made))
                             EXCEPT !.pc = "idle", !.outcome = "error shown"]
                   ELSE [made EXCEPT !.pc = "idle", !.outcome = "raised"]
    /\ UNCHANGED <<nonui, tree>>

NextUi ==
    \/ Start
    \/ HandleMessage
    \/ Analyze
    \/ Invoke
    \/ InvokeRaises
    \/ Thought
    \/ Formulate
    \/ Respond
    \/ EndThoughtProcess
    \/ UpdateTechnicalDetails
    \/ DisplayError

SpecUi == Init /\ [][NextUi]_vars

\* C24: after update_message(message, content) completes, the content
\* shown for the message is the new content: the update sent to the UI
\* carried it, or, the update having raised, exactly one new message with
\* that content and the author of the message was sent instead.
C24_SafeUpdate ==
    (ui.upd.msg # 0 /\ ~ui.upd.raised)
        => IF ui.upd.updated
           THEN /\ ui.screen[ui.upd.msg].content = ui.upd.content
                /\ Len(ui.msgs) = ui.upd.before
           ELSE /\ Len(ui.msgs) = ui.upd.before + 1
                /\ ui.msgs[newest(ui)] =
                       [author |-> ui.msgs[ui.upd.msg].author,
                        content |-> ui.upd.content]
                /\ ui.screen[newest(ui)] =
                       [sent |-> TRUE, content |-> ui.upd.content]

\* C25: a handle_message invocation that started the thought-process
\* message and is over has brought that message to "Analysis Complete" and
\* cleared ui.thoughts_msg, whichever way it ended.
C25_ThoughtsEnded ==
    (ui.pc = "idle" /\ ui.started # <<>>)
        => /\ ui.thoughts_msg = <<>>
           /\ ui.msgs[ui.started[1]].content = Complete

\* ------------------------------------------------------------------
\* The two files of the knowledge directory taken together
\* ------------------------------------------------------------------

\* C26: after add_insight or record_analysis has returned or failed, either
\* both files hold the serialization of the collections as the mutation
\* left them, or both hold what they held before the mutation.
C26_AllOrNothing ==
    (last.op \in Mutators /\ last.outcome \in {"ok", "error"})
        => \/ files = DiskOf(store[last.proc])
           \/ files = pre.files

\* C27: with two KnowledgeBase instances on the directory, once a mutation
\* of either has returned, the files hold every record that a mutation
\* which returned has added, whichever instance added it.
C27_NoLostUpdate ==
    (/\ \A p \in Procs : store[p].live /\ pc[p] = "idle"
     /\ last.op \in Mutators
     /\ last.outcome = "ok")
        => \A n \in FileNames :
               \A i \in 1..Len(added[n]) :
                   \E j \in 1..Len(entries(files[n])) :
                       entries(files[n])[j] = added[n][i]

====
